---- MODULE Spec2Model ----
(***************************************************************************)
(* Model of the block-headered first-fit allocator of                      *)
(* src/src/memory_allocator.cpp (class CustomAllocator::MemoryAllocator).  *)
(*                                                                         *)
(* Addresses are absolute integers; nullptr is 0 and the managed region is *)
(* [HeapBase, HeapBase + heap_size_).  Block headers live inside the       *)
(* region: hdr maps the address of every header that has been stored (and  *)
(* not overwritten since) to its four fields, so headers that a merge has  *)
(* unlinked from the chain stay readable, as they do in memory; between    *)
(* calls, headers that neither the chain nor a pointer of the client leads *)
(* to are dropped from hdr, since nothing can read them.  mem is the data  *)
(* plane: the last non-zero data byte stored at each address by the        *)
(* client or by memcpy (an address outside DOMAIN mem reads as 0).         *)
(* size_t arithmetic is modulo 2^SizeBits.                                 *)
(*                                                                         *)
(* The client holds the payload pointers it was returned (live); a client  *)
(* that keeps the pointers it gives back remembers them until the engine   *)
(* next hands out a payload (stale), and may give them back a second time. *)
(*                                                                         *)
(* threads holds, for two threads calling my_malloc on the one engine, how *)
(* far each call has got, and the lock outside the engine when the threads *)
(* share one; a single client makes every call in one step and leaves      *)
(* threads alone.                                                          *)
(***************************************************************************)
EXTENDS Integers, FiniteSets, Sequences, TLC

VARIABLES heap_start_, heap_end_, heap_size_, free_list_, stats_,
          owns_memory_, hdr, mem, live, stale, last, threads

vars == <<heap_start_, heap_end_, heap_size_, free_list_, stats_,
          owns_memory_, hdr, mem, live, stale, last, threads>>

----------------------------------------------------------------------------
(* Program constants *)

NULL == 0
ALIGNMENT == 8
MIN_BLOCK_SIZE == 16
\* sizeof(MemoryBlock): size_t, bool (+7 padding), two pointers, on LP64
HeaderSize == 32

(* Bounds of the model *)

\* width of size_t in the model
SizeBits == 10
\* cap on stats_.total_allocations
MaxAllocs == 3
\* the region's address is 16 * BaseUnits (std::malloc alignment)
BaseUnits == 4

SIZE_MOD == 2 ^ SizeBits
SIZE_MAX == SIZE_MOD - 1
HeapBase == 16 * BaseUnits

\* the engines constructed, as <<heap size, owns the region>>: a sized
\* construction with a multiple of ALIGNMENT, an adopted region whose size is
\* not one
Constructions == {<<5 * HeaderSize, TRUE>>, <<4 * HeaderSize + 20, FALSE>>}

\* a request within ALIGNMENT-1 of the largest size_t
BigReq == SIZE_MAX - 3
MallocSizes == {0, 1, 3 * ALIGNMENT, 8 * ALIGNMENT, BigReq}
ReallocSizes == {0, ALIGNMENT, 3 * ALIGNMENT, 9 * ALIGNMENT}
CallocArgs == {<<1, 1>>, <<0, 5>>, <<3, ALIGNMENT>>, <<SIZE_MOD \div 16, HeaderSize>>}

----------------------------------------------------------------------------
(* size_t arithmetic *)

Add(a, b) == (a + b) % SIZE_MOD
Sub(a, b) == (a - b + SIZE_MOD) % SIZE_MOD
Mul(a, b) == (a * b) % SIZE_MOD

----------------------------------------------------------------------------
(* The engine as a value: the fields of MemoryAllocator plus the region's  *)
(* contents.                                                               *)

Self ==
  [heap_start_ |-> heap_start_, heap_end_ |-> heap_end_,
   heap_size_ |-> heap_size_, free_list_ |-> free_list_, stats_ |-> stats_,
   owns_memory_ |-> owns_memory_, hdr |-> hdr, mem |-> mem]

Install(e) ==
  /\ heap_start_' = e.heap_start_
  /\ heap_end_' = e.heap_end_
  /\ heap_size_' = e.heap_size_
  /\ free_list_' = e.free_list_
  /\ stats_' = e.stats_
  /\ owns_memory_' = e.owns_memory_
  /\ hdr' = e.hdr
  /\ mem' = e.mem

InitEngine(e) ==
  /\ heap_start_ = e.heap_start_
  /\ heap_end_ = e.heap_end_
  /\ heap_size_ = e.heap_size_
  /\ free_list_ = e.free_list_
  /\ stats_ = e.stats_
  /\ owns_memory_ = e.owns_memory_
  /\ hdr = e.hdr
  /\ mem = e.mem

\* MemoryBlock::getData / MemoryBlock::fromData
getData(block) == block + HeaderSize
fromData(data) == data - HeaderSize

\* the data byte at address a
Byte(M, a) == IF a \in DOMAIN M THEN M[a] ELSE 0

\* the data plane with byte f[a] stored at every address a of DOMAIN f
StoreBytes(M, f) ==
  LET S == DOMAIN f
      nz == {a \in (DOMAIN M) \cup S : IF a \in S THEN f[a] # 0 ELSE TRUE}
  IN  [a \in nz |-> IF a \in S THEN f[a] ELSE M[a]]

\* the blocks of the chain, in chain order (at most fuel of them)
RECURSIVE ChainFrom(_, _, _)
ChainFrom(H, cur, fuel) ==
  IF cur = NULL \/ fuel = 0 \/ cur \notin DOMAIN H THEN <<>>
  ELSE <<cur>> \o ChainFrom(H, H[cur].next, fuel - 1)

Chain(e) == ChainFrom(e.hdr, e.free_list_, Cardinality(DOMAIN e.hdr))

Range(s) == {s[i] : i \in DOMAIN s}

\* the engine with the headers nothing leads to dropped: those of the chain
\* and those of the pointers ptrs stay
Reachable(e, ptrs) ==
  LET keep == (Range(Chain(e)) \cup {fromData(p) : p \in ptrs}) \cap DOMAIN e.hdr
  IN  [e EXCEPT !.hdr = [x \in keep |-> e.hdr[x]]]

\* storing len bytes at [a, a + len): headers under them are overwritten
Clobber(H, a, len) ==
  LET keep == {x \in DOMAIN H : x + HeaderSize <= a \/ x >= a + len}
  IN  [x \in keep |-> H[x]]

\* storing all four fields of a header at address a
StoreHeader(H, a, h) ==
  LET K == Clobber(H, a, HeaderSize)
  IN  [x \in (DOMAIN K) \cup {a} |-> IF x = a THEN h ELSE K[x]]

----------------------------------------------------------------------------
(* Utility functions *)

alignSize(size) ==
  LET s == Add(size, ALIGNMENT - 1) IN s - (s % ALIGNMENT)

\* isValidPointer with > in place of >=
isValidPointer_StrictLower(e, ptr) ==
  /\ ptr > e.heap_start_ + HeaderSize
  /\ ptr < e.heap_end_

isValidPointer(e, ptr) ==
  /\ ptr >= e.heap_start_ + HeaderSize
  /\ ptr < e.heap_end_

recalculateBlockCounts(e) ==
  LET c == Chain(e) IN
  [e EXCEPT !.stats_.block_count = Len(c),
            !.stats_.free_block_count =
               Cardinality({i \in DOMAIN c : e.hdr[c[i]].is_free})]

updateStatsAfterAlloc(e, size) ==
  recalculateBlockCounts(
    [e EXCEPT !.stats_.used_memory = Add(@, size),
              !.stats_.free_memory = Sub(@, size),
              !.stats_.total_allocations = Add(@, 1),
              !.stats_.free_block_count = Sub(@, 1)])

updateStatsAfterFree(e, size) ==
  [e EXCEPT !.stats_.used_memory = Sub(@, size),
            !.stats_.free_memory = Add(@, size),
            !.stats_.total_frees = Add(@, 1),
            !.stats_.free_block_count = Add(@, 1)]

----------------------------------------------------------------------------
(* Initialization *)

initializeHeap(e) ==
  LET head == e.heap_start_
      sz == Sub(e.heap_size_, HeaderSize)
  IN  [e EXCEPT
        !.free_list_ = head,
        !.hdr = StoreHeader(e.hdr, head,
                  [size |-> sz, is_free |-> TRUE, next |-> NULL, prev |-> NULL]),
        !.stats_ = [total_heap_size |-> e.heap_size_,
                    used_memory |-> 0,
                    free_memory |-> sz,
                    total_allocations |-> 0,
                    total_frees |-> 0,
                    block_count |-> 1,
                    free_block_count |-> 1,
                    coalesce_count |-> 0,
                    split_count |-> 0]]

ZeroStats ==
  [total_heap_size |-> 0, used_memory |-> 0, free_memory |-> 0,
   total_allocations |-> 0, total_frees |-> 0, block_count |-> 0,
   free_block_count |-> 0, coalesce_count |-> 0, split_count |-> 0]

\* both constructors: the region obtained (owns) or adopted (does not own),
\* stats_{} value-initialised, then initializeHeap()
Construct(size, owns) ==
  initializeHeap(
    [heap_start_ |-> HeapBase, heap_end_ |-> HeapBase + size,
     heap_size_ |-> size, free_list_ |-> NULL, stats_ |-> ZeroStats,
     owns_memory_ |-> owns,
     hdr |-> <<>>, mem |-> <<>>])

----------------------------------------------------------------------------
(* Block management algorithms *)

RECURSIVE FindFrom(_, _, _)
FindFrom(H, current, size) ==
  IF current = NULL THEN NULL
  ELSE IF H[current].is_free /\ H[current].size >= size THEN current
  ELSE FindFrom(H, H[current].next, size)

findFreeBlock(e, size) == FindFrom(e.hdr, e.free_list_, size)

\* splitBlock that needs more than, not at least, a header and a minimum block
splitBlock_StrictThreshold(e, block, size) ==
  LET remaining == Sub(e.hdr[block].size, size)
      new_block == block + HeaderSize + size
      nxt == e.hdr[block].next
      H1 == StoreHeader(e.hdr, new_block,
              [size |-> Sub(remaining, HeaderSize), is_free |-> TRUE,
               next |-> nxt, prev |-> block])
      H2 == IF nxt # NULL THEN [H1 EXCEPT ![nxt].prev = new_block] ELSE H1
      H3 == [H2 EXCEPT ![block].size = size, ![block].next = new_block]
  IN  IF remaining <= HeaderSize + MIN_BLOCK_SIZE THEN e
      ELSE [e EXCEPT !.hdr = H3,
                     !.stats_.block_count = Add(@, 1),
                     !.stats_.free_block_count = Add(@, 1),
                     !.stats_.split_count = Add(@, 1)]

\* splitBlock that takes the header it creates out of free_memory
splitBlock_ChargesHeader(e, block, size) ==
  LET remaining == Sub(e.hdr[block].size, size)
      min_split_size == HeaderSize + MIN_BLOCK_SIZE
      new_block == block + HeaderSize + size
      nxt == e.hdr[block].next
      H1 == StoreHeader(e.hdr, new_block,
              [size |-> Sub(remaining, HeaderSize), is_free |-> TRUE,
               next |-> nxt, prev |-> block])
      H2 == IF nxt # NULL THEN [H1 EXCEPT ![nxt].prev = new_block] ELSE H1
      H3 == [H2 EXCEPT ![block].size = size, ![block].next = new_block]
  IN  IF remaining < min_split_size THEN e
      ELSE [e EXCEPT !.hdr = H3,
                     !.stats_.free_memory = Sub(@, HeaderSize),
                     !.stats_.block_count = Add(@, 1),
                     !.stats_.free_block_count = Add(@, 1),
                     !.stats_.split_count = Add(@, 1)]

\* splitBlock giving the new block the whole remainder, header included
splitBlock_KeepsHeaderBytes(e, block, size) ==
  LET remaining == Sub(e.hdr[block].size, size)
      new_block == block + HeaderSize + size
      nxt == e.hdr[block].next
      H1 == StoreHeader(e.hdr, new_block,
              [size |-> remaining, is_free |-> TRUE,
               next |-> nxt, prev |-> block])
      H2 == IF nxt # NULL THEN [H1 EXCEPT ![nxt].prev = new_block] ELSE H1
      H3 == [H2 EXCEPT ![block].size = size, ![block].next = new_block]
  IN  IF remaining < HeaderSize + MIN_BLOCK_SIZE THEN e
      ELSE [e EXCEPT !.hdr = H3,
                     !.stats_.block_count = Add(@, 1),
                     !.stats_.free_block_count = Add(@, 1),
                     !.stats_.split_count = Add(@, 1)]

\* splitBlock without the store to block->size
splitBlock_KeepsOriginalSize(e, block, size) ==
  LET remaining == Sub(e.hdr[block].size, size)
      new_block == block + HeaderSize + size
      nxt == e.hdr[block].next
      H1 == StoreHeader(e.hdr, new_block,
              [size |-> Sub(remaining, HeaderSize), is_free |-> TRUE,
               next |-> nxt, prev |-> block])
      H2 == IF nxt # NULL THEN [H1 EXCEPT ![nxt].prev = new_block] ELSE H1
      H3 == [H2 EXCEPT ![block].next = new_block]
  IN  IF remaining < HeaderSize + MIN_BLOCK_SIZE THEN e
      ELSE [e EXCEPT !.hdr = H3,
                     !.stats_.block_count = Add(@, 1),
                     !.stats_.free_block_count = Add(@, 1),
                     !.stats_.split_count = Add(@, 1)]

splitBlock(e, block, size) ==
  LET remaining == Sub(e.hdr[block].size, size)
      min_split_size == HeaderSize + MIN_BLOCK_SIZE
      new_block == block + HeaderSize + size
      nxt == e.hdr[block].next
      H1 == StoreHeader(e.hdr, new_block,
              [size |-> Sub(remaining, HeaderSize), is_free |-> TRUE,
               next |-> nxt, prev |-> block])
      H2 == IF nxt # NULL THEN [H1 EXCEPT ![nxt].prev = new_block] ELSE H1
      H3 == [H2 EXCEPT ![block].size = size, ![block].next = new_block]
  IN  IF remaining < min_split_size THEN e
      ELSE [e EXCEPT !.hdr = H3,
                     !.stats_.block_count = Add(@, 1),
                     !.stats_.free_block_count = Add(@, 1),
                     !.stats_.split_count = Add(@, 1)]

\* coalesceNext without the addition to block->size
coalesceNext_KeepsSize(e, block) ==
  LET H == e.hdr
      next == H[block].next
      nn == H[next].next
      H1 == [H EXCEPT ![block].next = nn]
      H2 == IF nn # NULL THEN [H1 EXCEPT ![nn].prev = block] ELSE H1
  IN  IF next # NULL /\ H[next].is_free
      THEN [e EXCEPT !.hdr = H2,
                     !.stats_.block_count = Sub(@, 1),
                     !.stats_.free_block_count = Sub(@, 1),
                     !.stats_.coalesce_count = Add(@, 1)]
      ELSE e

\* first half of coalesceBlock: absorb the next block
coalesceNext(e, block) ==
  LET H == e.hdr
      next == H[block].next
      nn == H[next].next
      H1 == [H EXCEPT ![block].size = Add(@, Add(HeaderSize, H[next].size)),
                      ![block].next = nn]
      H2 == IF nn # NULL THEN [H1 EXCEPT ![nn].prev = block] ELSE H1
  IN  IF next # NULL /\ H[next].is_free
      THEN [e EXCEPT !.hdr = H2,
                     !.stats_.block_count = Sub(@, 1),
                     !.stats_.free_block_count = Sub(@, 1),
                     !.stats_.coalesce_count = Add(@, 1)]
      ELSE e

\* coalescePrev without the store to prev->next->prev
coalescePrev_NoBackLink(e, block) ==
  LET H == e.hdr
      prev == H[block].prev
      H1 == [H EXCEPT ![prev].size = Add(@, Add(HeaderSize, H[block].size)),
                      ![prev].next = H[block].next]
  IN  IF prev # NULL /\ H[prev].is_free
      THEN [e EXCEPT !.hdr = H1,
                     !.stats_.block_count = Sub(@, 1),
                     !.stats_.free_block_count = Sub(@, 1),
                     !.stats_.coalesce_count = Add(@, 1)]
      ELSE e

\* coalescePrev that also clears is_free in the header it absorbs
coalescePrev_ScrubsHeader(e, block) ==
  LET H == e.hdr
      prev == H[block].prev
      bn == H[block].next
      H1 == [H EXCEPT ![prev].size = Add(@, Add(HeaderSize, H[block].size)),
                      ![prev].next = bn,
                      ![block].is_free = FALSE]
      H2 == IF bn # NULL THEN [H1 EXCEPT ![bn].prev = prev] ELSE H1
  IN  IF prev # NULL /\ H[prev].is_free
      THEN [e EXCEPT !.hdr = H2,
                     !.stats_.block_count = Sub(@, 1),
                     !.stats_.free_block_count = Sub(@, 1),
                     !.stats_.coalesce_count = Add(@, 1)]
      ELSE e

\* second half of coalesceBlock: the previous block absorbs this one
coalescePrev(e, block) ==
  LET H == e.hdr
      prev == H[block].prev
      bn == H[block].next
      H1 == [H EXCEPT ![prev].size = Add(@, Add(HeaderSize, H[block].size)),
                      ![prev].next = bn]
      H2 == IF bn # NULL THEN [H1 EXCEPT ![bn].prev = prev] ELSE H1
  IN  IF prev # NULL /\ H[prev].is_free
      THEN [e EXCEPT !.hdr = H2,
                     !.stats_.block_count = Sub(@, 1),
                     !.stats_.free_block_count = Sub(@, 1),
                     !.stats_.coalesce_count = Add(@, 1)]
      ELSE e

\* coalesceBlock that counts a merge on both sides as one
coalesceBlock_CountsOnce(e, block) ==
  LET r == coalescePrev(coalesceNext(e, block), block)
  IN  IF r.stats_.coalesce_count = Add(e.stats_.coalesce_count, 2)
      THEN [r EXCEPT !.stats_.coalesce_count = Sub(@, 1)]
      ELSE r

\* coalesceBlock without its second half
coalesceBlock_ForwardOnly(e, block) == coalesceNext(e, block)

coalesceBlock(e, block) == coalescePrev(coalesceNext(e, block), block)

----------------------------------------------------------------------------
(* Core allocation functions: each yields the engine after the call and    *)
(* the value returned.                                                     *)

my_malloc(e, size) ==
  LET need == IF alignSize(size) < MIN_BLOCK_SIZE THEN MIN_BLOCK_SIZE
              ELSE alignSize(size)
      block == findFreeBlock(e, need)
      e1 == splitBlock(e, block, need)
      e2 == [e1 EXCEPT !.hdr[block].is_free = FALSE]
      e3 == updateStatsAfterAlloc(e2, e2.hdr[block].size)
  IN  IF size = 0 THEN [e |-> e, ret |-> NULL]
      ELSE IF block = NULL THEN [e |-> e, ret |-> NULL]
      ELSE [e |-> e3, ret |-> getData(block)]

\* my_malloc from the return of findFreeBlock on: size is the local after
\* alignment, block what the search returned
mallocFound(e, block, size) ==
  LET e1 == splitBlock(e, block, size)
      e2 == [e1 EXCEPT !.hdr[block].is_free = FALSE]
      e3 == updateStatsAfterAlloc(e2, e2.hdr[block].size)
  IN  IF block = NULL THEN [e |-> e, ret |-> NULL]
      ELSE [e |-> e3, ret |-> getData(block)]

\* my_free without the test of block->is_free
my_free_NoDoubleFreeCheck(e, ptr) ==
  LET block == fromData(ptr)
      e1 == updateStatsAfterFree(e, e.hdr[block].size)
      e2 == [e1 EXCEPT !.hdr[block].is_free = TRUE]
  IN  IF ptr = NULL THEN e
      ELSE IF ~isValidPointer(e, ptr) THEN e
      ELSE coalesceBlock(e2, block)

\* my_free without the store to block->is_free
my_free_KeepsAllocated(e, ptr) ==
  LET block == fromData(ptr)
      e1 == updateStatsAfterFree(e, e.hdr[block].size)
  IN  IF ptr = NULL THEN e
      ELSE IF ~isValidPointer(e, ptr) THEN e
      ELSE IF e.hdr[block].is_free THEN e
      ELSE coalesceBlock(e1, block)

my_free(e, ptr) ==
  LET block == fromData(ptr)
      e1 == updateStatsAfterFree(e, e.hdr[block].size)
      e2 == [e1 EXCEPT !.hdr[block].is_free = TRUE]
  IN  IF ptr = NULL THEN e
      ELSE IF ~isValidPointer(e, ptr) THEN e
      ELSE IF e.hdr[block].is_free THEN e
      ELSE coalesceBlock(e2, block)

\* memcpy that stops one byte early
memcpy_OneShort(e, dst, src, n) ==
  [e EXCEPT
    !.mem = StoreBytes(e.mem, [a \in dst .. (dst + n - 2) |->
                                 Byte(e.mem, src + (a - dst))]),
    !.hdr = Clobber(e.hdr, dst, n)]

\* std::memcpy(dst, src, n) on the data plane
memcpy(e, dst, src, n) ==
  [e EXCEPT
    !.mem = StoreBytes(e.mem, [a \in dst .. (dst + n - 1) |->
                                 Byte(e.mem, src + (a - dst))]),
    !.hdr = Clobber(e.hdr, dst, n)]

\* memset that stops one byte early
memset0_OneShort(e, dst, n) ==
  [e EXCEPT
    !.mem = StoreBytes(e.mem, [a \in dst .. (dst + n - 2) |-> 0]),
    !.hdr = Clobber(e.hdr, dst, n)]

\* std::memset(dst, 0, n)
memset0(e, dst, n) ==
  [e EXCEPT
    !.mem = StoreBytes(e.mem, [a \in dst .. (dst + n - 1) |-> 0]),
    !.hdr = Clobber(e.hdr, dst, n)]

\* the forward expansion counted as a coalesce
expandInPlace_CountsCoalesce(e, block, combined_size) ==
  LET next == e.hdr[block].next
      nn == e.hdr[next].next
      H1 == [e.hdr EXCEPT ![block].size = combined_size, ![block].next = nn]
      H2 == IF nn # NULL THEN [H1 EXCEPT ![nn].prev = block] ELSE H1
  IN  [e EXCEPT !.hdr = H2,
                !.stats_.free_block_count = Sub(@, 1),
                !.stats_.block_count = Sub(@, 1),
                !.stats_.coalesce_count = Add(@, 1)]

\* the forward expansion without the update of block_count
expandInPlace_KeepsBlockCount(e, block, combined_size) ==
  LET next == e.hdr[block].next
      nn == e.hdr[next].next
      H1 == [e.hdr EXCEPT ![block].size = combined_size, ![block].next = nn]
      H2 == IF nn # NULL THEN [H1 EXCEPT ![nn].prev = block] ELSE H1
  IN  [e EXCEPT !.hdr = H2, !.stats_.free_block_count = Sub(@, 1)]

\* the forward-expansion branch of my_realloc
expandInPlace(e, block, combined_size) ==
  LET next == e.hdr[block].next
      nn == e.hdr[next].next
      H1 == [e.hdr EXCEPT ![block].size = combined_size, ![block].next = nn]
      H2 == IF nn # NULL THEN [H1 EXCEPT ![nn].prev = block] ELSE H1
  IN  [e EXCEPT !.hdr = H2,
                !.stats_.free_block_count = Sub(@, 1),
                !.stats_.block_count = Sub(@, 1)]

\* my_realloc that splits the block when the new size fits in it
my_realloc_ShrinkSplits(e, ptr, new_size) ==
  LET block == fromData(ptr)
      old_size == e.hdr[block].size
      need == alignSize(new_size)
      next == e.hdr[block].next
      combined_size == Add(old_size, Add(HeaderSize, e.hdr[next].size))
      m == my_malloc(e, need)
      moved == my_free(memcpy(m.e, m.ret, ptr, old_size), ptr)
  IN  IF ptr = NULL THEN my_malloc(e, new_size)
      ELSE IF new_size = 0 THEN [e |-> my_free(e, ptr), ret |-> NULL]
      ELSE IF ~isValidPointer(e, ptr) THEN [e |-> e, ret |-> NULL]
      ELSE IF need <= old_size
           THEN [e |-> splitBlock(e, block, need), ret |-> ptr]
      ELSE IF next # NULL /\ e.hdr[next].is_free /\ combined_size >= need
           THEN [e |-> expandInPlace(e, block, combined_size), ret |-> ptr]
      ELSE IF m.ret = NULL THEN [e |-> e, ret |-> NULL]
      ELSE [e |-> moved, ret |-> m.ret]

\* my_realloc that gives the old block back when the relocation fails
my_realloc_FreesOnFailure(e, ptr, new_size) ==
  LET block == fromData(ptr)
      old_size == e.hdr[block].size
      need == alignSize(new_size)
      next == e.hdr[block].next
      combined_size == Add(old_size, Add(HeaderSize, e.hdr[next].size))
      m == my_malloc(e, need)
      moved == my_free(memcpy(m.e, m.ret, ptr, old_size), ptr)
  IN  IF ptr = NULL THEN my_malloc(e, new_size)
      ELSE IF new_size = 0 THEN [e |-> my_free(e, ptr), ret |-> NULL]
      ELSE IF ~isValidPointer(e, ptr) THEN [e |-> e, ret |-> NULL]
      ELSE IF need <= old_size THEN [e |-> e, ret |-> ptr]
      ELSE IF next # NULL /\ e.hdr[next].is_free /\ combined_size >= need
           THEN [e |-> expandInPlace(e, block, combined_size), ret |-> ptr]
      ELSE IF m.ret = NULL THEN [e |-> my_free(e, ptr), ret |-> NULL]
      ELSE [e |-> moved, ret |-> m.ret]

\* my_realloc that returns ptr untouched when new_size is 0
my_realloc_ZeroSizeKeepsBlock(e, ptr, new_size) ==
  LET block == fromData(ptr)
      old_size == e.hdr[block].size
      need == alignSize(new_size)
      next == e.hdr[block].next
      combined_size == Add(old_size, Add(HeaderSize, e.hdr[next].size))
      m == my_malloc(e, need)
      moved == my_free(memcpy(m.e, m.ret, ptr, old_size), ptr)
  IN  IF ptr = NULL THEN my_malloc(e, new_size)
      ELSE IF new_size = 0 THEN [e |-> e, ret |-> ptr]
      ELSE IF ~isValidPointer(e, ptr) THEN [e |-> e, ret |-> NULL]
      ELSE IF need <= old_size THEN [e |-> e, ret |-> ptr]
      ELSE IF next # NULL /\ e.hdr[next].is_free /\ combined_size >= need
           THEN [e |-> expandInPlace(e, block, combined_size), ret |-> ptr]
      ELSE IF m.ret = NULL THEN [e |-> e, ret |-> NULL]
      ELSE [e |-> moved, ret |-> m.ret]

my_realloc(e, ptr, new_size) ==
  LET block == fromData(ptr)
      old_size == e.hdr[block].size
      need == alignSize(new_size)
      next == e.hdr[block].next
      combined_size == Add(old_size, Add(HeaderSize, e.hdr[next].size))
      m == my_malloc(e, need)
      moved == my_free(memcpy(m.e, m.ret, ptr, old_size), ptr)
  IN  IF ptr = NULL THEN my_malloc(e, new_size)
      ELSE IF new_size = 0 THEN [e |-> my_free(e, ptr), ret |-> NULL]
      ELSE IF ~isValidPointer(e, ptr) THEN [e |-> e, ret |-> NULL]
      ELSE IF need <= old_size THEN [e |-> e, ret |-> ptr]
      ELSE IF next # NULL /\ e.hdr[next].is_free /\ combined_size >= need
           THEN [e |-> expandInPlace(e, block, combined_size), ret |-> ptr]
      ELSE IF m.ret = NULL THEN [e |-> e, ret |-> NULL]
      ELSE [e |-> moved, ret |-> m.ret]

\* my_calloc without the overflow test
my_calloc_NoOverflowCheck(e, count, size) ==
  LET total_size == Mul(count, size)
      m == my_malloc(e, total_size)
  IN  IF m.ret # NULL THEN [e |-> memset0(m.e, m.ret, total_size), ret |-> m.ret]
      ELSE m

my_calloc(e, count, size) ==
  LET total_size == Mul(count, size)
      m == my_malloc(e, total_size)
  IN  IF count # 0 /\ (total_size \div count) # size
      THEN [e |-> e, ret |-> NULL]
      ELSE IF m.ret # NULL THEN [e |-> memset0(m.e, m.ret, total_size), ret |-> m.ret]
      ELSE m

\* reset that rebuilds the chain and the memory counters but keeps the
\* running totals
reset_KeepsTotals(e) ==
  [initializeHeap(e) EXCEPT
     !.stats_.total_allocations = e.stats_.total_allocations,
     !.stats_.total_frees = e.stats_.total_frees,
     !.stats_.split_count = e.stats_.split_count,
     !.stats_.coalesce_count = e.stats_.coalesce_count]

reset(e) == initializeHeap(e)

----------------------------------------------------------------------------
(* Move construction and move assignment, as they act on the engine moved  *)
(* from (the fields of `other`); the engine moved to is another object.    *)

movedFrom(e) ==
  [e EXCEPT !.heap_start_ = NULL, !.heap_end_ = NULL, !.free_list_ = NULL,
            !.owns_memory_ = FALSE]

\* operator=(MemoryAllocator&&): nothing happens when this == &other
moveAssignFrom(e, same) == IF same THEN e ELSE movedFrom(e)

----------------------------------------------------------------------------
(* The client and the public operations.  live is the set of payload       *)
(* pointers the client holds (returned and not yet given back); stale is   *)
(* the set of pointers it gave back and kept, no call having returned a    *)
(* payload since; last is the call that was made last, with its arguments  *)
(* and its return value.                                                   *)

Call(op, a, b, ret) == [op |-> op, a |-> a, b |-> b, ret |-> ret]

\* pointers the client passes to free and reallocate besides the ones it
\* holds: nullptr, one inside the first header, one past the end of the region
OutOfRange == {HeapBase + ALIGNMENT, HeapBase + heap_size_}
FreeArgs == live \cup {NULL} \cup OutOfRange
ReallocArgs ==
  (live \X ReallocSizes)
    \cup {<<NULL, 0>>, <<NULL, 3 * ALIGNMENT>>}
    \cup {<<HeapBase + heap_size_, 0>>, <<HeapBase + heap_size_, 3 * ALIGNMENT>>}

\* two threads that call on the one engine
ThreadIds == {1, 2}

\* a thread between calls; pc is "idle", "found" (findFreeBlock has returned
\* block for the aligned size) or "done" (my_malloc has returned ret)
Idle == [pc |-> "idle", size |-> 0, block |-> NULL, ret |-> NULL]

\* lock: the threads share a lock around every call; holder: the thread
\* that holds it, 0 for none
NoThreads == [lock |-> FALSE, holder |-> 0, of |-> [t \in ThreadIds |-> Idle]]

Capped(e) == e.stats_.total_allocations <= MaxAllocs

Init ==
  /\ \E c \in Constructions : InitEngine(Construct(c[1], c[2]))
  /\ live = {}
  /\ stale = {}
  /\ last = Call("construct", 0, 0, NULL)
  /\ threads = NoThreads

MallocOf(sizes) ==
  \E n \in sizes :
    \E r \in {my_malloc(Self, n)} :
      /\ Capped(r.e)
      /\ live' = IF r.ret # NULL THEN live \cup {r.ret} ELSE live
      /\ stale' = IF r.ret # NULL THEN {} ELSE stale
      /\ Install(Reachable(r.e, live' \cup stale'))
      /\ UNCHANGED threads
      /\ last' = Call("malloc", n, 0, r.ret)

\* keeps: the client keeps the pointer it gives back
FreeOf(ptrs, keeps) ==
  \E p \in ptrs :
    /\ live' = live \ {p}
    /\ stale' = IF keeps /\ p \in live THEN stale \cup {p} ELSE stale
    /\ Install(Reachable(my_free(Self, p), live' \cup stale'))
    /\ UNCHANGED threads
    /\ last' = Call("free", p, 0, NULL)

ReallocOf(calls, keeps) ==
  \E c \in calls :
    \E r \in {my_realloc(Self, c[1], c[2])} :
      /\ Capped(r.e)
      /\ live' = IF c[2] = 0 THEN live \ {c[1]}
                 ELSE IF r.ret # NULL THEN (live \ {c[1]}) \cup {r.ret}
                 ELSE live
      /\ stale' = IF c[2] = 0
                  THEN (IF keeps /\ c[1] \in live THEN stale \cup {c[1]} ELSE stale)
                  ELSE IF r.ret # NULL THEN {}
                  ELSE stale
      /\ Install(Reachable(r.e, live' \cup stale'))
      /\ UNCHANGED threads
      /\ last' = Call("realloc", c[1], c[2], r.ret)

CallocOf(args) ==
  \E c \in args :
    \E r \in {my_calloc(Self, c[1], c[2])} :
      /\ Capped(r.e)
      /\ live' = IF r.ret # NULL THEN live \cup {r.ret} ELSE live
      /\ stale' = IF r.ret # NULL THEN {} ELSE stale
      /\ Install(Reachable(r.e, live' \cup stale'))
      /\ UNCHANGED threads
      /\ last' = Call("calloc", c[1], c[2], r.ret)

\* reset() of an engine that was moved from stores through nullptr: no call
Reset ==
  /\ heap_start_ # NULL
  /\ live' = {}
  /\ stale' = {}
  /\ Install(Reachable(reset(Self), live'))
  /\ UNCHANGED threads
  /\ last' = Call("reset", 0, 0, NULL)

Malloc == MallocOf(MallocSizes)
Free == FreeOf(FreeArgs, FALSE)
Realloc == ReallocOf(ReallocArgs, FALSE)
Calloc == CallocOf(CallocArgs)

Next == Malloc \/ Free \/ Realloc \/ Calloc \/ Reset

Spec == Init /\ [][Next]_vars

----------------------------------------------------------------------------
(* The client's stores.  Right after a call handed it n bytes at p, the    *)
(* client fills them: byte i gets Pattern(i), never 0.  (A request the     *)
(* block cannot hold is not filled.)                                       *)

Pattern(i) == 1 + (i % 5)

Granted ==
  IF last.ret = NULL THEN 0
  ELSE IF last.op = "malloc" THEN last.a
  ELSE IF last.op = "calloc" THEN Mul(last.a, last.b)
  ELSE IF last.op = "realloc" THEN last.b
  ELSE 0

Write ==
  LET p == last.ret
      n == Granted
  IN    /\ n > 0
        /\ p \in live
        /\ n <= hdr[fromData(p)].size
        /\ mem' = StoreBytes(mem, [a \in p .. (p + n - 1) |-> Pattern(a - p)])
        /\ hdr' = Clobber(hdr, p, n)
        /\ UNCHANGED threads
        /\ last' = Call("write", p, n, NULL)
        /\ UNCHANGED <<heap_start_, heap_end_, heap_size_, free_list_, stats_,
                       owns_memory_, live, stale>>

\* the engine whose contents are followed: the sized construction
InitMem ==
  /\ InitEngine(Construct(5 * HeaderSize, TRUE))
  /\ live = {}
  /\ stale = {}
  /\ last = Call("construct", 0, 0, NULL)
  /\ threads = NoThreads

MallocMem == MallocOf({3 * ALIGNMENT})
FreeMem == FreeOf(live, FALSE)
ReallocMem == ReallocOf(live \X {3 * ALIGNMENT}, FALSE)
CallocMem == CallocOf({<<1, 1>>, <<2, ALIGNMENT>>})

NextMem == MallocMem \/ FreeMem \/ ReallocMem \/ CallocMem \/ Write

SpecMem == InitMem /\ [][NextMem]_vars

----------------------------------------------------------------------------
(* Moving from the engine, between calls on it. *)

MoveConstruct ==
  /\ Install(Reachable(movedFrom(Self), live \cup stale))
  /\ UNCHANGED threads
  /\ last' = Call("move_construct", 0, 0, NULL)
  /\ UNCHANGED <<live, stale>>

MoveAssign ==
  \E same \in BOOLEAN :
    /\ Install(Reachable(moveAssignFrom(Self, same), live \cup stale))
    /\ UNCHANGED threads
    /\ last' = Call("move_assign", IF same THEN 1 ELSE 0, 0, NULL)
    /\ UNCHANGED <<live, stale>>

MallocMove == MallocOf({0, 1, 3 * ALIGNMENT})
FreeMove == FreeOf(live \cup {NULL}, FALSE)

NextMove == MallocMove \/ FreeMove \/ MoveConstruct \/ MoveAssign

SpecMove == Init /\ [][NextMove]_vars

----------------------------------------------------------------------------
(* A client that keeps the pointers it gives back and may pass them to     *)
(* free, or to reallocate with size 0, again.                              *)

MallocStale == MallocOf({1, 3 * ALIGNMENT})
CallocStale == CallocOf({<<3, ALIGNMENT>>})
FreeStale == FreeOf(live \cup stale \cup {NULL} \cup OutOfRange, TRUE)
ReallocStale ==
  ReallocOf((live \X {0, ALIGNMENT, 3 * ALIGNMENT})
              \cup (stale \X {0})
              \cup {<<NULL, 0>>, <<NULL, 3 * ALIGNMENT>>}
              \cup {<<HeapBase + heap_size_, 0>>}, TRUE)

NextStale == MallocStale \/ CallocStale \/ FreeStale \/ ReallocStale

SpecStale == Init /\ [][NextStale]_vars

----------------------------------------------------------------------------
(* The allocate, free, allocate again pattern of testMemoryReuse, run in   *)
(* one go from any state the engine is in between calls: last keeps the    *)
(* two sizes asked for, the pointer and the block size of the first        *)
(* allocation, and the pointer of the second.                              *)

ReuseFirst == {0, 1, 3 * ALIGNMENT, 8 * ALIGNMENT, BigReq}
ReuseSecond == {0, 1, 3 * ALIGNMENT}

Reuse ==
  \E m \in ReuseFirst, k \in ReuseSecond :
    \E r1 \in {my_malloc(Self, m)} :
      \E r2 \in {my_malloc(my_free(r1.e, r1.ret), k)} :
        /\ Capped(r2.e)
        /\ live' = IF r2.ret # NULL THEN live \cup {r2.ret} ELSE live
        /\ stale' = IF r1.ret # NULL \/ r2.ret # NULL THEN {} ELSE stale
        /\ Install(Reachable(r2.e, live' \cup stale'))
        /\ UNCHANGED threads
        /\ last' = [op |-> "reuse", a |-> m, b |-> k, ret |-> r2.ret,
                    first |-> r1.ret,
                    first_size |-> IF r1.ret # NULL
                                   THEN r1.e.hdr[fromData(r1.ret)].size ELSE 0]

MallocReuse == MallocOf({1, 3 * ALIGNMENT})
FreeReuse == FreeOf(live, FALSE)
ReallocReuse == ReallocOf(live \X {9 * ALIGNMENT}, FALSE)

NextReuse == MallocReuse \/ FreeReuse \/ ReallocReuse \/ Reuse

SpecReuse == Init /\ [][NextReuse]_vars

----------------------------------------------------------------------------
(* my_calloc over element counts and element sizes up to LargeArg, among   *)
(* them pairs whose product wraps to 0, to a few bytes, and to more than   *)
(* the region holds.  (A product that does not wrap but lies within        *)
(* ALIGNMENT - 1 of the largest size_t wraps in alignSize instead, and     *)
(* memset then stores past the end of the region: no such pair is drawn.)  *)

LargeArg == SIZE_MAX - ALIGNMENT
CallocCounts == {0, 1, 3, SIZE_MOD \div 16, SIZE_MOD \div 3, LargeArg}
CallocSizes == {0, 1, ALIGNMENT, HeaderSize, SIZE_MOD \div 3 + 1, SIZE_MOD \div 2, LargeArg}

CallocWide == CallocOf(CallocCounts \X CallocSizes)
FreeWide == FreeOf(live, FALSE)

NextWide == CallocWide \/ FreeWide

SpecWide == Init /\ [][NextWide]_vars

----------------------------------------------------------------------------
(* Two threads on one engine.  A call of my_malloc is two steps, the       *)
(* search and the rest, and the steps of the two calls interleave unless   *)
(* the threads take a lock around each call.  Both requests have the same  *)
(* aligned size: with different ones the later split would store a header  *)
(* over the remainder of the earlier.  A thread gives its payload back in  *)
(* one step taken while no search result is pending.                       *)

\* sizes the threads ask for: 0 and two that my_malloc raises to 16
ThreadSizes == {0, 1, MIN_BLOCK_SIZE}

\* a lock that excludes nobody
MayEnter_NoExclusion(t) == TRUE

\* the thread may start a call: no lock is in use, or the lock is free
MayEnter(t) == ~threads.lock \/ threads.holder = 0

InFlight == {t \in ThreadIds : threads.of[t].pc = "found"}

Held(c) == {c.of[t].ret : t \in ThreadIds} \ {NULL}

InitThreads ==
  /\ \E c \in Constructions : InitEngine(Construct(c[1], c[2]))
  /\ live = {}
  /\ stale = {}
  /\ last = Call("construct", 0, 0, NULL)
  /\ \E l \in BOOLEAN : threads = [NoThreads EXCEPT !.lock = l]

\* my_malloc up to the return of findFreeBlock
Find(t) ==
  /\ threads.of[t].pc = "idle"
  /\ MayEnter(t)
  /\ stats_.total_allocations + Cardinality(InFlight) < MaxAllocs
  /\ \E n \in ThreadSizes :
       LET size == IF alignSize(n) < MIN_BLOCK_SIZE THEN MIN_BLOCK_SIZE
                   ELSE alignSize(n)
       IN  threads' =
             IF n = 0
             THEN [threads EXCEPT !.of[t] = [Idle EXCEPT !.pc = "done"]]
             ELSE [threads EXCEPT
                     !.of[t] = [pc |-> "found", size |-> size,
                                block |-> findFreeBlock(Self, size),
                                ret |-> NULL],
                     !.holder = IF threads.lock THEN t ELSE 0]
  /\ UNCHANGED <<heap_start_, heap_end_, heap_size_, free_list_, stats_,
                 owns_memory_, hdr, mem, live, stale, last>>

\* the rest of my_malloc, on the block the search of this call returned
Finish(t) ==
  /\ threads.of[t].pc = "found"
  /\ \E r \in {mallocFound(Self, threads.of[t].block, threads.of[t].size)} :
       /\ threads' = [threads EXCEPT !.of[t].pc = "done", !.of[t].ret = r.ret,
                                 !.holder = 0]
       /\ live' = IF r.ret # NULL THEN live \cup {r.ret} ELSE live
       /\ stale' = stale
       /\ Install(Reachable(r.e, live' \cup Held(threads')))
       /\ last' = Call("malloc", threads.of[t].size, t, r.ret)

\* the thread gives back what its call returned (my_free(nullptr) when the
\* call failed)
Give(t) ==
  /\ threads.of[t].pc = "done"
  /\ MayEnter(t)
  /\ InFlight = {}
  /\ threads' = [threads EXCEPT !.of[t] = Idle]
  /\ live' = live \ {threads.of[t].ret}
  /\ stale' = stale
  /\ Install(Reachable(my_free(Self, threads.of[t].ret),
                       live' \cup Held(threads')))
  /\ last' = Call("free", threads.of[t].ret, t, NULL)

ThreadFind == \E t \in ThreadIds : Find(t)
ThreadFinish == \E t \in ThreadIds : Finish(t)
ThreadGive == \E t \in ThreadIds : Give(t)

NextThreads == ThreadFind \/ ThreadFinish \/ ThreadGive

SpecThreads == InitThreads /\ [][NextThreads]_vars

----------------------------------------------------------------------------
(* A client that passes a pointer it gave back to reallocate, with a size  *)
(* that fits the block the pointer had.  The pointer it gets back stays    *)
(* among the ones it gave back.                                            *)

DanglingSizes == {1, ALIGNMENT}

ReallocDangling ==
  \E p \in stale :
    \E n \in DanglingSizes :
      \E r \in {my_realloc(Self, p, n)} :
        /\ live' = live
        /\ stale' = stale
        /\ Install(Reachable(r.e, live' \cup stale'))
        /\ UNCHANGED threads
        /\ last' = Call("realloc", p, n, r.ret)

ReallocHeld == ReallocOf(live \X {ALIGNMENT, 3 * ALIGNMENT}, TRUE)

NextDangling == MallocStale \/ FreeStale \/ ReallocHeld \/ ReallocDangling

SpecDangling == Init /\ [][NextDangling]_vars

----------------------------------------------------------------------------
(* What the claims speak of *)

\* the chain of the engine as it is now
Blocks == Chain(Self)

RECURSIVE SumSizes(_, _, _)
SumSizes(H, c, free) ==
  IF c = <<>> THEN 0
  ELSE (IF H[Head(c)].is_free = free THEN H[Head(c)].size ELSE 0)
       + SumSizes(H, Tail(c), free)

FreeBlocks == {i \in DOMAIN Blocks : hdr[Blocks[i]].is_free}

\* the block a returned payload pointer designates
BlockOf(p) == hdr[fromData(p)]

Returned(op) == last.op = op /\ last.ret # NULL

\* the last call was a reallocate that grew its block in place
GrewInPlace ==
  /\ Returned("realloc")
  /\ last.ret = last.a
  /\ BlockOf(last.ret).size = heap_size_ - HeaderSize
  /\ stats_.split_count >= 1

----------------------------------------------------------------------------
\* C1: after every public operation, used_memory + free_memory +
\* block_count * header_size equals total_heap_size.
C1_AccountingIdentity ==
  stats_.used_memory + stats_.free_memory + stats_.block_count * HeaderSize
    = stats_.total_heap_size

\* C2: after every public operation, used_memory equals the sum of the size
\* fields of the blocks of the chain that are not free.
C2_UsedIsSumOfAllocated ==
  stats_.used_memory = SumSizes(hdr, Blocks, FALSE)

\* C3: after every public operation, free_memory equals the sum of the size
\* fields of the free blocks of the chain.
C3_FreeIsSumOfFree ==
  stats_.free_memory = SumSizes(hdr, Blocks, TRUE)

\* C4: after every public operation, block_count is the number of blocks
\* reachable from the chain head and free_block_count the number of those
\* that are free.
C4_BlockCountsMatchChain ==
  /\ stats_.block_count = Len(Blocks)
  /\ stats_.free_block_count = Cardinality(FreeBlocks)

\* C4 witness: a reallocate has just absorbed the free forward neighbour, and
\* the chain is one allocated block again.
C4_Witness ==
  /\ GrewInPlace
  /\ Len(Blocks) = 1
  /\ FreeBlocks = {}

\* C5: the size field of every block of the chain is a multiple of ALIGNMENT,
\* whatever accepted heap size the engine was constructed with.
C5_SizesAligned ==
  \A i \in DOMAIN Blocks : hdr[Blocks[i]].size % ALIGNMENT = 0

\* C6: whenever allocate(n) returns a payload, the block it designates has
\* size >= n, for every n up to the largest size_t.
C6_AllocAtLeastRequested ==
  Returned("malloc") => BlockOf(last.ret).size >= last.a

C8_MovedFromInert ==
  (last.op = "move_construct" \/ (last.op = "move_assign" /\ last.a = 0)) =>
    /\ heap_start_ = NULL
    /\ heap_end_ = NULL
    /\ free_list_ = NULL
    /\ owns_memory_ = FALSE
    /\ stats_ = ZeroStats

\* C9 (G1, tiling): the chain head is at the region's begin, every block with
\* a successor ends where the successor begins, and the last block ends at
\* the region's end.
C9_Tiling ==
  /\ free_list_ = heap_start_
  /\ Len(Blocks) >= 1
  /\ \A i \in DOMAIN Blocks :
       LET B == Blocks[i]
           end == B + HeaderSize + hdr[B].size
       IN  IF hdr[B].next # NULL
           THEN /\ i < Len(Blocks)
                /\ hdr[B].next = end
           ELSE /\ i = Len(Blocks)
                /\ end = heap_end_

\* C9 witness: a free has merged blocks while other blocks stay in the chain.
C9_Witness ==
  /\ last.op = "free"
  /\ stats_.coalesce_count >= 1
  /\ Len(Blocks) >= 2
  /\ live # {}

\* C10 (G2, symmetry): for every block B of the chain, B.next.prev = B when
\* B.next exists, B.prev.next = B when B.prev exists, and the head has no prev.
C10_Symmetry ==
  /\ hdr[free_list_].prev = NULL
  /\ \A i \in DOMAIN Blocks :
       LET B == Blocks[i] IN
         /\ hdr[B].next # NULL => hdr[hdr[B].next].prev = B
         /\ hdr[B].prev # NULL =>
              /\ hdr[B].prev \in DOMAIN hdr
              /\ hdr[hdr[B].prev].next = B

\* C10 witness: three blocks were given back, two merges have happened and
\* the chain is one free block again.
C10_Witness ==
  /\ last.op = "free"
  /\ stats_.total_frees = 3
  /\ stats_.coalesce_count >= 2
  /\ Len(Blocks) = 1

\* C11 (G5): after every public operation on live pointers, no block of the
\* chain is free while its successor is free too (the one forward and one
\* backward merge of free are enough).
C11_NoAdjacentFree ==
  \A i \in 1 .. (Len(Blocks) - 1) :
    ~(hdr[Blocks[i]].is_free /\ hdr[Blocks[i + 1]].is_free)

\* C11 witness: two blocks were split off and given back, the first one
\* first; the free of the second found a free block on each side and merged
\* with both.
C11_Witness ==
  /\ last.op = "free"
  /\ last.a > heap_start_ + HeaderSize
  /\ stats_.total_allocations = 2
  /\ stats_.split_count = 2
  /\ stats_.total_frees = 2
  /\ stats_.coalesce_count = 2
  /\ Len(Blocks) = 1

\* C12 (no overlap): the payload ranges [p, p + size) of the live allocations
\* are pairwise disjoint, lie inside the region and contain no byte of the
\* header of any block of the chain.
C12_NoOverlap ==
  \A p \in live :
    LET end == p + BlockOf(p).size IN
      /\ heap_start_ <= p
      /\ end <= heap_end_
      /\ \A q \in live \ {p} : end <= q \/ q + BlockOf(q).size <= p
      /\ \A i \in DOMAIN Blocks : Blocks[i] + HeaderSize <= p \/ end <= Blocks[i]

\* C12 witness: a reallocate has moved an allocation to another block while
\* another allocation is live.
C12_Witness ==
  /\ Returned("realloc")
  /\ last.ret # last.a
  /\ last.a # NULL
  /\ Cardinality(live) >= 2

\* C13 (P3): after every public operation, total_allocations - total_frees is
\* not negative and is the number of allocations the client holds, which is
\* the number of blocks of the chain that are not free; rejected frees (null,
\* out of range, second free) count for nothing.
C13_LiveCount ==
  /\ stats_.total_allocations >= stats_.total_frees
  /\ stats_.total_allocations - stats_.total_frees = Cardinality(live)
  /\ Cardinality(live) = Len(Blocks) - Cardinality(FreeBlocks)

\* C13 witness: a pointer was passed to free a second time while another
\* allocation is live.
C13_Witness ==
  /\ last.op = "free"
  /\ last.a \in stale
  /\ live # {}
  /\ stats_.total_frees >= 1

\* the chain is one free block that spans the region
WholeRegionFree ==
  /\ Len(Blocks) = 1
  /\ hdr[Blocks[1]].is_free
  /\ hdr[Blocks[1]].size = stats_.total_heap_size - HeaderSize
  /\ stats_.block_count = 1
  /\ stats_.free_block_count = 1

\* C14 (L5): once every pointer that was handed out has been given back, in
\* whatever order, the chain is a single free block of size total_heap_size -
\* header_size with block_count = free_block_count = 1; and a free never
\* changes split_count and never lowers coalesce_count.
C14_FreeAllRestores ==
  [][/\ live' = {} => WholeRegionFree'
     /\ last'.op = "free" =>
          /\ stats_'.split_count = stats_.split_count
          /\ stats_'.coalesce_count >= stats_.coalesce_count]_vars

\* C14 witness: three allocations, two of them split off, were all given
\* back, the first one not last, and the region is whole again.
C14_Witness ==
  /\ last.op = "free"
  /\ live = {}
  /\ stats_.total_allocations = 3
  /\ stats_.total_frees = 3
  /\ stats_.split_count = 2
  /\ stats_.coalesce_count = 2
  /\ last.a > heap_start_ + HeaderSize
  /\ WholeRegionFree

\* the last step ran allocate(m); free; allocate(k) and the first allocation
\* succeeded
Reused == last.op = "reuse" /\ last.first # NULL

\* no allocation other than the one just made is live
NoOtherLive == live \subseteq {last.ret}

\* C15 as claimed (L1, reuse): from any state between calls, allocate(n);
\* free; allocate(n) yields a second block of the size of the first, and the
\* same pointer when nothing else is live; with nothing else live,
\* allocate(m); free; allocate(k) with align(k) <= align(m) returns the
\* pointer of the first allocation.
C15_ReuseAnySecondSize ==
  Reused =>
    /\ last.a = last.b =>
         /\ last.ret # NULL
         /\ BlockOf(last.ret).size = last.first_size
         /\ NoOtherLive => last.ret = last.first
    /\ (NoOtherLive /\ alignSize(last.b) <= alignSize(last.a)) =>
         last.ret = last.first

\* C15 as amended: the same, the second request being of at least one byte.
C15_ReuseNonZeroSecondSize ==
  Reused =>
    /\ last.a = last.b =>
         /\ last.ret # NULL
         /\ BlockOf(last.ret).size = last.first_size
         /\ NoOtherLive => last.ret = last.first
    /\ (NoOtherLive /\ last.b >= 1 /\ alignSize(last.b) <= alignSize(last.a)) =>
         last.ret = last.first

\* C15 witness: with nothing else live, a block was allocated, given back and
\* allocated again for a smaller request, which split it.
C15_Witness ==
  /\ Reused
  /\ NoOtherLive
  /\ last.b >= 1
  /\ alignSize(last.b) < alignSize(last.a)
  /\ BlockOf(last.ret).size < last.first_size
  /\ last.ret = last.first

\* the smaller of two sizes
Min(a, b) == IF a <= b THEN a ELSE b

\* C16 (L2): a reallocate(p, new) of a live payload p, new > 0, that returns
\* q non-null leaves the first min(old, new) bytes at q equal to the bytes
\* that were at p before the call, old being the size of p's block before it
\* (in place, by forward expansion, or by relocation).
C16_ReallocKeepsPrefix ==
  [][(/\ last'.op = "realloc"
      /\ last'.ret # NULL
      /\ last'.b > 0
      /\ last'.a \in live) =>
        \A i \in 0 .. (Min(BlockOf(last'.a).size, last'.b) - 1) :
          Byte(mem', last'.ret + i) = Byte(mem, last'.a + i)]_vars

\* C16 witness: a reallocate moved a block the client had filled; the last
\* byte of the old block's size is there, non-zero, at the new place.
C16_Witness ==
  /\ Returned("realloc")
  /\ last.a # NULL
  /\ last.ret # last.a
  /\ last.b = 3 * ALIGNMENT
  /\ Byte(mem, last.ret + 2 * ALIGNMENT - 1) # 0
  /\ Byte(mem, last.ret + 2 * ALIGNMENT) = 0

\* the step was a request that failed: an allocate or a zeroed_allocate that
\* returned null, or a reallocate of a live pointer to a size > 0 that did
FailedRequest ==
  /\ last'.ret = NULL
  /\ \/ last'.op = "malloc"
     \/ last'.op = "calloc"
     \/ last'.op = "realloc" /\ last'.b > 0 /\ last'.a \in live

\* C17: a failed request changes nothing: every header (size, is_free, next,
\* prev), the chain head and every counter are as before the call, and the
\* block of a reallocate that failed stays allocated and with the client.
C17_FailureChangesNothing ==
  [][FailedRequest =>
       /\ hdr' = hdr
       /\ free_list_' = free_list_
       /\ stats_' = stats_
       /\ last'.op = "realloc" =>
            /\ last'.a \in live'
            /\ ~hdr'[fromData(last'.a)].is_free]_vars

\* C17 witness: a reallocate of a live block to a larger size found neither a
\* free forward neighbour nor a free block to move to, and returned null.
C17_Witness ==
  /\ last.op = "realloc"
  /\ last.ret = NULL
  /\ last.b > 0
  /\ last.a \in live
  /\ last.b > BlockOf(last.a).size

\* C18 (B4): a free of a pointer that was already given back, no payload
\* having been handed out since, changes no header and no counter, also when
\* the first free merged the block into its previous neighbour and its header
\* is no longer a block of the chain.
C18_DoubleFreeNoChange ==
  [][(last'.op = "free" /\ last'.a \in stale) =>
       /\ hdr' = hdr
       /\ free_list_' = free_list_
       /\ stats_' = stats_]_vars

\* C18 witness: the pointer passed to free a second time designates a header
\* that a backward merge took out of the chain.
C18_Witness ==
  /\ last.op = "free"
  /\ last.a \in stale
  /\ fromData(last.a) \notin Range(Blocks)
  /\ BlockOf(last.a).is_free
  /\ stats_.coalesce_count >= 1

\* the range of payload addresses: [region begin + header size, region end)
InPayloadRange(p) == heap_start_ + HeaderSize <= p /\ p < heap_end_

\* the addresses on either side of each end of the payload range, nullptr,
\* the ends of the region, and every pointer the client holds or passes
Addresses ==
  {NULL, heap_start_, heap_start_ + HeaderSize - 1, heap_start_ + HeaderSize,
   heap_end_ - 1, heap_end_, heap_end_ + ALIGNMENT}
    \cup live \cup OutOfRange

C20_Delegation ==
  [][last'.op = "realloc" =>
       /\ last'.a = NULL =>
            \E r \in {my_malloc(Self, last'.b)} :
              /\ last'.ret = r.ret
              /\ Self' = Reachable(r.e, live' \cup stale')
       /\ (last'.a # NULL /\ last'.b = 0) =>
            /\ last'.ret = NULL
            /\ Self' = Reachable(my_free(Self, last'.a), live' \cup stale')]_vars

\* C20 witness: reallocate(p, 0) gave back a block, which merged with a free
\* neighbour, while another allocation stayed live.
C20_Witness ==
  /\ last.op = "realloc"
  /\ last.b = 0
  /\ last.a \in stale
  /\ BlockOf(last.a).is_free
  /\ stats_.total_frees = 1
  /\ stats_.coalesce_count = 1
  /\ live # {}

\* the product count * elem_size as size_t computes it fails the test of
\* my_calloc
ProductWraps(count, size) == count # 0 /\ (Mul(count, size) \div count) # size

\* C21: zeroed_allocate(count, elem_size) returns null and changes nothing in
\* the engine whenever count # 0 and (count * elem_size mod 2^w) / count
\* differs from elem_size; hence no call whose true product is above 2^w - 1
\* returns a payload.
C21_OverflowRejected ==
  [][last'.op = "calloc" =>
       /\ ProductWraps(last'.a, last'.b) =>
            /\ last'.ret = NULL
            /\ UNCHANGED <<heap_start_, heap_end_, heap_size_, free_list_,
                           stats_, owns_memory_, hdr, mem>>
       /\ last'.a * last'.b > SIZE_MAX => last'.ret = NULL]_vars

\* C21 witness: a product that wraps to a few bytes, which the whole free
\* region could have held, was refused.
C21_Witness ==
  /\ last.op = "calloc"
  /\ last.ret = NULL
  /\ last.a * last.b > SIZE_MAX
  /\ Mul(last.a, last.b) \in 1 .. MIN_BLOCK_SIZE
  /\ live = {}
  /\ hdr[free_list_].is_free

\* C22: after reset(), whatever the state it was called in, the engine is as
\* right after its construction: one free block at the region's begin, of
\* size heap_size - header_size, with next = prev = null; used_memory = 0,
\* free_memory = heap_size - header_size, block_count = free_block_count = 1,
\* total_allocations = total_frees = split_count = coalesce_count = 0.
C22_ResetRestoresConstruction ==
  [][last'.op = "reset" =>
       /\ [Self' EXCEPT !.mem = <<>>] = Construct(heap_size_, owns_memory_)
       /\ free_list_' = heap_start_'
       /\ hdr' = (heap_start_ :> [size |-> heap_size_ - HeaderSize,
                                  is_free |-> TRUE,
                                  next |-> NULL, prev |-> NULL])
       /\ stats_' = [total_heap_size |-> heap_size_,
                     used_memory |-> 0,
                     free_memory |-> heap_size_ - HeaderSize,
                     total_allocations |-> 0, total_frees |-> 0,
                     block_count |-> 1, free_block_count |-> 1,
                     coalesce_count |-> 0, split_count |-> 0]]_vars

\* C22 witness: reset() was called and the region is one free block again,
\* with no allocation counted.
C22_Witness ==
  /\ last.op = "reset"
  /\ live = {}
  /\ WholeRegionFree
  /\ stats_.total_allocations = 0
  /\ stats_.split_count = 0

\* n rounded up to a multiple of ALIGNMENT, as a number (no wrap), and the
\* size a request of n bytes needs
RoundUp(n) == ((n + ALIGNMENT - 1) \div ALIGNMENT) * ALIGNMENT
Need(n) == IF RoundUp(n) < MIN_BLOCK_SIZE THEN MIN_BLOCK_SIZE ELSE RoundUp(n)

\* the free blocks of the chain of size >= need
Fitting(need) ==
  {B \in Range(Blocks) : hdr[B].is_free /\ hdr[B].size >= need}

\* the step was allocate(n), from a chain in which first fit designates: the
\* lowest fitting block if the call returned a payload, none if it returned
\* null; and the free blocks before the one taken are as they were
FirstFitStep ==
  LET fit == Fitting(Need(last'.a)) IN
    IF last'.ret = NULL THEN fit = {}
    ELSE /\ fit # {}
         /\ \A B \in fit : fromData(last'.ret) <= B
         /\ \A B \in Range(Blocks) : B < fromData(last'.ret) => hdr'[B] = hdr[B]

\* C23 (first fit): a successful allocate(n), need = max(align8(n),
\* MIN_BLOCK_SIZE), returns the payload of the lowest-address block of the
\* chain that is free and of size >= need at call time, leaving the free
\* blocks it skipped untouched; and it returns null only if no free block of
\* size >= need exists.  (Stated for n >= 1: allocate(0) returns null
\* before any search.)
C23_FirstFit ==
  [][(last'.op = "malloc" /\ last'.a >= 1) => FirstFitStep]_vars

\* C23 for the requests of 1 to SIZE_MAX - (ALIGNMENT - 1) bytes, those that
\* alignSize rounds without wrapping: first fit as above.
C23_FirstFitInRange ==
  [][(/\ last'.op = "malloc"
      /\ last'.a >= 1
      /\ last'.a <= SIZE_MAX - (ALIGNMENT - 1)) => FirstFitStep]_vars

\* the size my_malloc searches with for a request of n bytes
CodeNeed(n) ==
  IF alignSize(n) < MIN_BLOCK_SIZE THEN MIN_BLOCK_SIZE ELSE alignSize(n)

\* every allocation so far split its block and nothing was given back:
\* k = total_allocations gives split_count = k, block_count = k + 1 and one
\* free block
AllSplit ==
  /\ stats_.total_frees = 0
  /\ stats_.split_count = stats_.total_allocations
  /\ stats_.block_count = stats_.total_allocations + 1
  /\ stats_.free_block_count = 1

\* C24 (split rule): when allocate takes the free block B for need bytes, B
\* is split if and only if B.size - need >= header_size + MIN_BLOCK_SIZE; on
\* a split B.size becomes need, a free block of size B.size_old - need -
\* header_size is linked right after B, and block_count and split_count grow
\* by 1; otherwise B keeps its size, no block is created and split_count is
\* unchanged.  So each allocation that splits, after k that all did on a
\* fresh engine, gives split_count = k + 1, block_count = k + 2 and
\* free_block_count = 1.
C24_SplitRule ==
  [][(last'.op = "malloc" /\ last'.ret # NULL) =>
       LET B == fromData(last'.ret)
           need == CodeNeed(last'.a)
           old == hdr[B].size
           new_block == B + HeaderSize + need
       IN  IF old - need >= HeaderSize + MIN_BLOCK_SIZE
           THEN /\ hdr'[B].size = need
                /\ hdr'[B].next = new_block
                /\ hdr'[new_block] =
                     [size |-> old - need - HeaderSize, is_free |-> TRUE,
                      next |-> hdr[B].next, prev |-> B]
                /\ stats_'.block_count = stats_.block_count + 1
                /\ stats_'.split_count = stats_.split_count + 1
                /\ AllSplit => AllSplit'
           ELSE /\ hdr'[B].size = old
                /\ hdr'[B].next = hdr[B].next
                /\ Blocks' = Blocks
                /\ stats_'.block_count = stats_.block_count
                /\ stats_'.split_count = stats_.split_count]_vars

\* C24 witness: the second of two allocations that both split took a block
\* whose remainder was exactly a header and a minimum block.
C24_Witness ==
  /\ Returned("malloc")
  /\ AllSplit
  /\ stats_.split_count = 2
  /\ BlockOf(last.ret).size = CodeNeed(last.a)
  /\ hdr[BlockOf(last.ret).next].is_free
  /\ hdr[BlockOf(last.ret).next].size = MIN_BLOCK_SIZE

\* the block at address b exists and is free
IsFreeBlock(b) == b # NULL /\ hdr[b].is_free

\* C25 (coalesce counting): a free of a live block whose chain neighbours
\* include k free blocks (next and/or prev, k in {0, 1, 2}) increases
\* coalesce_count by exactly k, decreases block_count by exactly k, changes
\* free_block_count by exactly 1 - k, and leaves one free block spanning the
\* freed block and those k neighbours plus their k headers.
C25_CoalesceCounting ==
  [][(last'.op = "free" /\ last'.a \in live) =>
       LET B == fromData(last'.a)
           nx == hdr[B].next
           pv == hdr[B].prev
           kn == IF IsFreeBlock(nx) THEN 1 ELSE 0
           kp == IF IsFreeBlock(pv) THEN 1 ELSE 0
           k == kn + kp
           start == IF kp = 1 THEN pv ELSE B
           span == hdr[B].size
                   + (IF kn = 1 THEN HeaderSize + hdr[nx].size ELSE 0)
                   + (IF kp = 1 THEN HeaderSize + hdr[pv].size ELSE 0)
       IN  /\ stats_'.coalesce_count = stats_.coalesce_count + k
           /\ stats_'.block_count = stats_.block_count - k
           /\ stats_'.free_block_count = stats_.free_block_count + 1 - k
           /\ Len(Blocks') = Len(Blocks) - k
           /\ hdr'[start] =
                [size |-> span, is_free |-> TRUE,
                 next |-> IF kn = 1 THEN hdr[nx].next ELSE nx,
                 prev |-> hdr[start].prev]]_vars

\* C25 witness: of three blocks the middle one was freed last, its two
\* neighbours being free already, and one block is left.
C25_Witness ==
  /\ last.op = "free"
  /\ last.a = getData(HeapBase + HeaderSize + MIN_BLOCK_SIZE)
  /\ stats_.total_allocations = 3
  /\ stats_.total_frees = 3
  /\ stats_.coalesce_count = 2
  /\ stats_.block_count = 1
  /\ stats_.free_block_count = 1
  /\ hdr[heap_start_].size = heap_size_ - HeaderSize

\* C26 (forward expansion): for a live payload p with header H and need =
\* align8(new_size) > H.size, if H.next exists, is free and H.size +
\* header_size + H.next.size >= need, then reallocate(p, new_size) returns p,
\* H.size becomes H.size + header_size + H.next.size (the whole neighbour,
\* never re-split to need), block_count and free_block_count each drop by
\* exactly 1, and total_allocations, total_frees, split_count and
\* coalesce_count are unchanged.
C26_ForwardExpansion ==
  [][(/\ last'.op = "realloc"
      /\ last'.a \in live
      /\ LET H == hdr[fromData(last'.a)]
         IN  /\ RoundUp(last'.b) > H.size
             /\ IsFreeBlock(H.next)
             /\ H.size + HeaderSize + hdr[H.next].size >= RoundUp(last'.b))
     => LET B == fromData(last'.a)
            H == hdr[B]
        IN  /\ last'.ret = last'.a
            /\ hdr'[B] = [H EXCEPT !.size = H.size + HeaderSize + hdr[H.next].size,
                                   !.next = hdr[H.next].next]
            /\ Len(Blocks') = Len(Blocks) - 1
            /\ stats_'.block_count = stats_.block_count - 1
            /\ stats_'.free_block_count = stats_.free_block_count - 1
            /\ stats_'.total_allocations = stats_.total_allocations
            /\ stats_'.total_frees = stats_.total_frees
            /\ stats_'.split_count = stats_.split_count
            /\ stats_'.coalesce_count = stats_.coalesce_count]_vars

\* C26 witness: a reallocate to 24 bytes returned its argument, whose block
\* now has the whole region although a split to 24 would have left room for
\* a block.
C26_Witness ==
  /\ Returned("realloc")
  /\ last.ret = last.a
  /\ last.b = 3 * ALIGNMENT
  /\ ~BlockOf(last.ret).is_free
  /\ BlockOf(last.ret).size = heap_size_ - HeaderSize
  /\ BlockOf(last.ret).size - RoundUp(last.b) >= HeaderSize + MIN_BLOCK_SIZE
  /\ stats_.total_allocations = 1
  /\ stats_.total_frees = 0
  /\ stats_.block_count = 1
  /\ stats_.free_block_count = 0

\* C27 (shrink or fit in place): for a live payload p with header H and
\* new_size > 0 such that align8(new_size) <= H.size, reallocate(p, new_size)
\* returns p and leaves the entire engine state unchanged: no block is split,
\* H.size keeps its old value, and no accounting counter changes.
C27_FitInPlace ==
  [][(/\ last'.op = "realloc"
      /\ last'.a \in live
      /\ last'.b > 0
      /\ RoundUp(last'.b) <= hdr[fromData(last'.a)].size)
     => /\ last'.ret = last'.a
        /\ Self' = Self
        /\ Blocks' = Blocks
        /\ hdr'[fromData(last'.a)].size = hdr[fromData(last'.a)].size
        /\ stats_' = stats_]_vars

\* C27 witness: a reallocate to 8 bytes returned its argument, whose block
\* still has the 64 bytes it was allocated with, enough for a split.
C27_Witness ==
  /\ Returned("realloc")
  /\ last.ret = last.a
  /\ last.b = ALIGNMENT
  /\ ~BlockOf(last.ret).is_free
  /\ BlockOf(last.ret).size = 8 * ALIGNMENT
  /\ BlockOf(last.ret).size - last.b >= HeaderSize + MIN_BLOCK_SIZE
  /\ stats_.total_allocations = 1
  /\ stats_.split_count = 1
  /\ stats_.block_count = 2

\* both threads have a payload from my_malloc, and it is the same one
SamePayloadTwice ==
  /\ \A t \in ThreadIds : threads.of[t].pc = "done" /\ threads.of[t].ret # NULL
  /\ threads.of[1].ret = threads.of[2].ret

\* C28 (concurrency): the engine has no mutual exclusion of its own: when
\* the steps of two my_malloc calls interleave, both running findFreeBlock
\* before either stores is_free = false, both can return the same payload
\* pointer; when the threads make every call under a lock, no state is
\* reachable in which both hold the same payload.
C28_LockedCallsDistinct == threads.lock => ~SamePayloadTwice

\* C28 witness: without a lock, both calls have returned the same payload,
\* which the counters have as two allocations of one 16-byte block.
C28_Witness ==
  /\ ~threads.lock
  /\ SamePayloadTwice
  /\ \A t \in ThreadIds : threads.of[t].block = fromData(threads.of[t].ret)
  /\ live = {threads.of[1].ret}
  /\ stats_.total_allocations = 2
  /\ stats_.used_memory = 2 * MIN_BLOCK_SIZE
  /\ ~BlockOf(threads.of[1].ret).is_free

\* C29 (no counter wraps): in every state reached by allocate,
\* zeroed_allocate, free and reallocate on live pointers, each free subtracts
\* from used_memory at most its current value, so used_memory <=
\* total_heap_size and free_memory <= total_heap_size, also after a block
\* that reallocate grew in place is freed.
C29_CountersInRange ==
  /\ stats_.used_memory <= stats_.total_heap_size
  /\ stats_.free_memory <= stats_.total_heap_size

\* C30 (safety): every non-null pointer that reallocate(p, n) returns
\* designates a block that is marked not-free when the call returns, for
\* every in-range p, a stale p whose block was already freed included.
C30_ReallocReturnsAllocated ==
  Returned("realloc") => ~BlockOf(last.ret).is_free

\* C31 (counters kept by the code): after every public operation
\* (used_memory + free_memory) mod 2^w equals total_heap_size - header_size,
\* whatever the number of blocks: split and coalesce do not adjust
\* free_memory for the header they create or remove, allocate and free move
\* the block's size between the two counters, and the in-place paths of
\* reallocate touch neither.
C31_CountersSum ==
  (stats_.used_memory + stats_.free_memory) % SIZE_MOD
    = stats_.total_heap_size - HeaderSize

\* C31 witness: splits and a merge have happened, the chain has two blocks
\* again, and used_memory has wrapped, so that the sum of the two counters
\* is total_heap_size - header_size only modulo 2^w.
C31_Witness ==
  /\ stats_.split_count >= 2
  /\ stats_.coalesce_count >= 1
  /\ stats_.block_count = 2
  /\ stats_.used_memory + stats_.free_memory
       = SIZE_MOD + stats_.total_heap_size - HeaderSize

====
